---- MODULE Spec2Model ----
(***************************************************************************)
(* Model of the scoring and aggregation engine of src/app.py:              *)
(*   calculate_perplexity_score / get_ai_enhanced_detection  (SpecScore,   *)
(*   SpecHeuristic), check_plagiarism (SpecPlag) and the report endpoints  *)
(*   analyze_document / analyze_text / get_report (SpecApi).               *)
(*                                                                         *)
(* Numbers.  Python floats are modelled by exact fixed-point integers.     *)
(*   - AI scores are integers in units of 1/Unit (Unit = 2 * 10^MaxRespLen *)
(*     holds every value a response of at most MaxRespLen characters can   *)
(*     parse to, its 0.6/0.4 blend, and the 1:1 mean with GPT-Zero).       *)
(*   - readability metrics are integers in hundredths (55.0 is 5500).      *)
(* Library calls (nltk, textstat, numpy) are taken to return; what they    *)
(* return is an input of the model.                                        *)
(***************************************************************************)
EXTENDS Integers, Sequences, FiniteSets, TLC

VARIABLES
    \* ---- calculate_perplexity_score / get_ai_enhanced_detection ----
    pc,                 \* position in calculate_perplexity_score
    text,               \* the input text: [sentences, stats] (what the libraries report of it)
    openai_key,         \* openai.api_key is set            (app.py:29)
    gemini_key,         \* GEMINI_API_KEY is set            (app.py:33)
    metrics,            \* the local metrics, once computed (app.py:69-75,99-100)
    ai_score,           \* local ai_score, in 1/Unit        (app.py:78,110)
    calls,              \* provider calls made so far, in order
    score_text,         \* local score_text: the latest provider response (app.py:167,181)
    ai_enhanced_score,  \* what get_ai_enhanced_detection returned
    result,             \* what calculate_perplexity_score returned
    \* ---- check_plagiarism ----
    ppc,                \* position in check_plagiarism
    search_keys,        \* GOOGLE_SEARCH_API_KEY and GOOGLE_SEARCH_ENGINE_ID are set (app.py:30-31)
    sentences,          \* local sentences: the length in characters of each (app.py:226)
    next_sentence,      \* the next sentence of the loop at app.py:230
    current_chunk,      \* local current_chunk (app.py:228)
    chunks,             \* local chunks (app.py:227)
    total_checked,      \* local total_checked (app.py:243)
    next_chunk,         \* the next chunk of the loop at app.py:245 (1-based)
    queried,            \* the chunks a search query was issued for, in order
    last_search,        \* what the latest query did
    matches,            \* local matches (app.py:242)
    plagiarism_result,  \* what check_plagiarism returned
    \* ---- the endpoints ----
    reports_cache,      \* the module's reports_cache: report id -> report (app.py:40)
    clock,              \* the wall clock datetime.now() reads
    final_ai_score,     \* the handler's local final_ai_score, in 1/Unit (app.py:322,379)
    response            \* what the latest request was answered

scoreVars == <<pc, text, openai_key, gemini_key, metrics, ai_score, calls,
               score_text, ai_enhanced_score, result>>

plagVars == <<ppc, search_keys, sentences, next_sentence, current_chunk, chunks, total_checked,
              next_chunk, queried, last_search, matches, plagiarism_result>>

apiVars == <<reports_cache, clock, final_ai_score, response>>

vars == <<scoreVars, plagVars, apiVars>>

-----------------------------------------------------------------------------
(* Bounds *)

\* longest provider response, in characters
MaxRespLen == 3
\* largest number of sentences of a text given to calculate_perplexity_score
MaxScoreSentences == 4

\* fixed-point unit of AI scores
Unit == 2 * (10 ^ MaxRespLen)

Min(a, b) == IF a <= b THEN a ELSE b

-----------------------------------------------------------------------------
(* Optional values: Python's None or a number *)

None == [some |-> FALSE, val |-> 0]
Some(v) == [some |-> TRUE, val |-> v]

-----------------------------------------------------------------------------
(* The heuristic: app.py:77-104 *)

\* Factor 1: sentence-length variance (hundredths)
Factor1(variance) ==
    IF variance < 1000 THEN 25
    ELSE IF variance < 2000 THEN 15
    ELSE 0

\* (mutant) the looser reading-ease band without its upper end
Factor2HalfOpen(reading_ease) ==
    IF 5500 <= reading_ease /\ reading_ease <= 7500 THEN 25
    ELSE IF 4500 <= reading_ease /\ reading_ease < 8500 THEN 15
    ELSE 0

\* Factor 2: Flesch reading ease (hundredths)
Factor2(reading_ease) ==
    IF 5500 <= reading_ease /\ reading_ease <= 7500 THEN 25
    ELSE IF 4500 <= reading_ease /\ reading_ease <= 8500 THEN 15
    ELSE 0

\* Factor 3: Flesch-Kincaid grade (hundredths)
Factor3(grade) ==
    IF 800 <= grade /\ grade <= 1200 THEN 20
    ELSE IF 600 <= grade /\ grade <= 1400 THEN 10
    ELSE 0

\* unique_ratio = len(set(words)) / len(words) if words else 0, compared with
\* 0.4 and 0.6: u/w < 4/10 is 10*u < 4*w
Factor4(unique_words, total_words) ==
    IF total_words = 0 THEN 30
    ELSE IF 10 * unique_words < 4 * total_words THEN 30
    ELSE IF 10 * unique_words < 6 * total_words THEN 15
    ELSE 0

HeuristicPoints(m) ==
    Factor1(m.variance) + Factor2(m.reading_ease) + Factor3(m.grade)
        + Factor4(m.unique_words, m.total_words)

-----------------------------------------------------------------------------
(* Parsing a provider response: app.py:167-168, 181-182 *)

Digits == {"0", "5", "6"}
\* "%" stands for every character that is neither a digit nor "."
Alphabet == Digits \cup {".", "%"}

DigitValue(c) == CASE c = "0" -> 0 [] c = "5" -> 5 [] c = "6" -> 6

IsScoreChar(c) == c \in Digits \/ c = "."

\* ''.join(filter(lambda x: x.isdigit() or x == '.', score_text)); the
\* strip() of lines 167 and 181 removes only characters this filter drops
FilterScoreChars(s) == SelectSeq(s, IsScoreChar)

IsDot(c) == c = "."
IsDigit(c) == c \in Digits

\* float(str) accepts a filtered string iff it has a digit and at most one "."
IsFloat(s) ==
    /\ Len(SelectSeq(s, IsDigit)) >= 1
    /\ Len(SelectSeq(s, IsDot)) <= 1

RECURSIVE Mantissa(_)
Mantissa(s) ==
    IF s = <<>> THEN 0
    ELSE 10 * Mantissa(SubSeq(s, 1, Len(s) - 1)) + DigitValue(s[Len(s)])

\* number of digits after the decimal point
Decimals(s) ==
    IF \E i \in 1..Len(s) : s[i] = "."
    THEN Len(s) - (CHOOSE i \in 1..Len(s) : s[i] = ".")
    ELSE 0

\* the value of float(s), in 1/Unit
FloatValue(s) == (Mantissa(SelectSeq(s, IsDigit)) * Unit) \div (10 ^ Decimals(s))

Responses == UNION {[1..n -> Alphabet] : n \in 0..MaxRespLen}

\* what one provider call can do: raise (timeout, auth error, an answer with
\* no text, ...) or answer with a text
ProviderOutcomes ==
    {[raised |-> TRUE, text |-> <<>>]}
        \cup {[raised |-> FALSE, text |-> t] : t \in Responses}

-----------------------------------------------------------------------------
(* Blend and label: app.py:108-116 *)

\* (mutant) the external opinion is dropped: the heuristic score is kept as it is
BlendedScoreHeuristicOnly(h, ext) == h

\* ai_score after lines 108-110, in 1/Unit
BlendedScore(h, ext) ==
    IF ext.some THEN (6 * h + 4 * ext.val) \div 10 ELSE h

\* line 112
Confidence(score) ==
    IF score > 60 * Unit THEN "high"
    ELSE IF score > 40 * Unit THEN "medium"
    ELSE "low"

NoMetrics ==
    [computed |-> FALSE, variance |-> 0, reading_ease |-> 0, grade |-> 0,
     unique_words |-> 0, total_words |-> 0]

\* (mutant) the sentence threshold off by one
TooShortBelowTwo(n) == n < 2

\* line 65
TooShort(n) == n < 3

\* line 66
TooShortResult == [score |-> 50 * Unit, confidence |-> "low", metrics |-> NoMetrics]

\* lines 108-124: what is returned for heuristic score h (in 1/Unit), external
\* opinion ext and metrics m
ReturnedResult(h, ext, m) ==
    LET blended == BlendedScore(h, ext)
    IN  [score |-> Min(blended, 100 * Unit),
         confidence |-> Confidence(blended),
         metrics |-> m]

\* lines 57-124 as a whole, for a text t and the answer ext of
\* get_ai_enhanced_detection
PerplexityResult(t, ext) ==
    IF TooShort(t.sentences) THEN TooShortResult
    ELSE ReturnedResult(HeuristicPoints(t.stats) * Unit, ext, t.stats)

-----------------------------------------------------------------------------
(* Inputs *)

MetricsOf(v, r, g, u, w) ==
    [computed |-> TRUE, variance |-> v, reading_ease |-> r, grade |-> g,
     unique_words |-> u, total_words |-> w]

\* every band boundary of the four factors, from both sides
BoundaryMetrics ==
    {MetricsOf(v, r, g, u, 50) :
        v \in {999, 1000, 1999, 2000},
        r \in {4499, 4500, 5499, 5500, 7500, 7501, 8500, 8501},
        g \in {599, 600, 799, 800, 1200, 1201, 1400, 1401},
        u \in {19, 20, 29, 30, 50}}

\* a few texts for the whole pipeline: heuristic points 0, 40, 65, 80, 100
SampleMetrics ==
    {MetricsOf(2500, 3000, 1600, 45, 50),
     MetricsOf(1500, 8000, 1300, 40, 50),
     MetricsOf(500, 6000, 500, 25, 50),
     MetricsOf(500, 6000, 1600, 15, 50),
     MetricsOf(500, 6000, 1000, 15, 50)}

-----------------------------------------------------------------------------
(* check_plagiarism: the chunk splitter, app.py:226-239 *)

\* line 231: `< 200`
ChunkLimit == 200
\* line 243: min(5, len(chunks))
MaxChunksChecked == 5
\* line 263: results['items'][:2]
TopResults == 2
\* line 255: 'num': 3
RequestedResults == 3

\* A buffer is the sentences it holds (by position in the text), its length
\* in characters and whether it starts with the space line 232 puts in front
\* of the first sentence.  Sentences come from the tokenizer without
\* surrounding white space.
EmptyChunk == [ids |-> <<>>, len |-> 0, lead |-> FALSE]

\* line 231
Fits(cur, n) == cur.len + n < ChunkLimit

\* line 232: current_chunk += " " + sentence
Joined(cur, id, n) ==
    [ids |-> Append(cur.ids, id), len |-> cur.len + 1 + n,
     lead |-> IF cur.len = 0 THEN TRUE ELSE cur.lead]

\* current_chunk.strip(), lines 235 and 239
Stripped(cur) == [ids |-> cur.ids, len |-> cur.len - (IF cur.lead THEN 1 ELSE 0)]

\* lines 234-235 and 238-239: `if current_chunk: chunks.append(...)`
Closed(list, cur) == IF cur.len > 0 THEN Append(list, Stripped(cur)) ELSE list

\* (mutant) the sentence that closes a buffer is not kept as the new buffer
SplitOneDropsSentence(st, id, n) ==
    IF Fits(st.current, n)
    THEN [chunks |-> st.chunks, current |-> Joined(st.current, id, n)]
    ELSE [chunks |-> Closed(st.chunks, st.current), current |-> EmptyChunk]

\* one turn of the loop of lines 230-236
SplitOne(st, id, n) ==
    IF Fits(st.current, n)
    THEN [chunks |-> st.chunks, current |-> Joined(st.current, id, n)]
    ELSE [chunks |-> Closed(st.chunks, st.current),
          current |-> [ids |-> <<id>>, len |-> n, lead |-> FALSE]]

\* lines 227-239 as a whole
RECURSIVE SplitFrom(_, _, _)
SplitFrom(st, sents, n) ==
    IF n > Len(sents) THEN Closed(st.chunks, st.current)
    ELSE SplitFrom(SplitOne(st, n, sents[n]), sents, n + 1)

SplitChunks(sents) == SplitFrom([chunks |-> <<>>, current |-> EmptyChunk], sents, 1)

-----------------------------------------------------------------------------
(* check_plagiarism: searching and scoring, app.py:241-283 *)

\* what one search query can do: raise (timeout, connection or JSON error),
\* answer with a status other than 200, or answer 200 with 0..3 items
SearchOutcomes ==
    {[kind |-> "exception", items |-> 0], [kind |-> "status", items |-> 0]}
        \cup {[kind |-> "ok", items |-> n] : n \in 0..RequestedResults}

NoSearch == [kind |-> "none", items |-> 0]

\* (mutant) every returned item is kept, without the [:2] of line 263
EvidenceAll(c, o) ==
    IF o.kind = "ok"
    THEN [j \in 1..o.items |-> [chunk |-> c, rank |-> j]]
    ELSE <<>>

\* lines 260-269: the evidence one query adds for chunk c
Evidence(c, o) ==
    IF o.kind = "ok"
    THEN [j \in 1..Min(TopResults, o.items) |-> [chunk |-> c, rank |-> j]]
    ELSE <<>>

\* round(a / b, 0) for integers a >= 0, b > 0, ties to even as Python rounds
RoundDiv(a, b) ==
    LET q == a \div b
        r == a % b
    IN  IF 2 * r < b THEN q
        ELSE IF 2 * r > b THEN q + 1
        ELSE q + (q % 2)

\* (mutant) the score without its clamp
PlagiarismScoreUnclamped(n, checked) == RoundDiv(n * 10000, checked)

\* lines 275 and 278: round(min((n / checked) * 100, 100), 2), in hundredths
PlagiarismScore(n, checked) == Min(RoundDiv(n * 10000, checked), 10000)

NoPlagiarismResult ==
    [kind |-> "none", score |-> 0, sources |-> <<>>, chunks_checked |-> 0]

\* line 222
NotConfiguredResult ==
    [kind |-> "not_configured", score |-> 0, sources |-> <<>>, chunks_checked |-> 0]

\* lines 275-283: the division raises when nothing was checked
ScoredResult(found, checked) ==
    IF checked = 0
    THEN [kind |-> "error", score |-> 0, sources |-> <<>>, chunks_checked |-> 0]
    ELSE [kind |-> "ok", score |-> PlagiarismScore(Len(found), checked),
          sources |-> found, chunks_checked |-> checked]

IdlePlag ==
    /\ ppc = "idle"
    /\ sentences = <<>>
    /\ next_sentence = 1
    /\ current_chunk = EmptyChunk
    /\ chunks = <<>>
    /\ total_checked = 0
    /\ next_chunk = 1
    /\ queried = <<>>
    /\ last_search = NoSearch
    /\ matches = <<>>
    /\ plagiarism_result = NoPlagiarismResult

-----------------------------------------------------------------------------
(* The endpoints: report building, app.py:286-418 *)

\* (mutant) risk thresholds taken inclusively
RiskLevelInclusive(final, plag) ==
    IF final >= 70 * Unit \/ plag >= 5000 THEN "high"
    ELSE IF final >= 50 * Unit \/ plag >= 3000 THEN "medium"
    ELSE "low"

\* lines 348 and 402; final in 1/Unit, plag in hundredths
RiskLevel(final, plag) ==
    IF final > 70 * Unit \/ plag > 5000 THEN "high"
    ELSE IF final > 50 * Unit \/ plag > 3000 THEN "medium"
    ELSE "low"

\* lines 341 and 395
Verdict(final) ==
    IF final > 60 * Unit THEN "Likely AI-generated"
    ELSE IF final < 40 * Unit THEN "Likely human-written"
    ELSE "Uncertain"

\* lines 322-325 and 379-381: the 1:1 mean with GPT-Zero's
\* average_generated_prob when check_gptzero gave a result
FinalAiScore(analysis, gptzero) ==
    IF gptzero.some THEN (analysis.score + gptzero.val) \div 2 ELSE analysis.score

\* hashlib.md5(text.encode()).hexdigest(), lines 306 and 372: distinct for the
\* texts of the model
ReportId(t) == "md5-" \o t.name

\* lines 328-350 and 383-404
BuildReport(t, filename, now, analysis, gptzero, plag) ==
    LET final == FinalAiScore(analysis, gptzero)
    IN  [report_id |-> ReportId(t),
         filename |-> filename,
         analyzed_at |-> now,
         total_words |-> t.words,
         total_sentences |-> t.sentences,
         probability |-> RoundDiv(final * 100, Unit),
         confidence |-> analysis.confidence,
         metrics |-> analysis.metrics,
         verdict |-> Verdict(final),
         gptzero |-> gptzero,
         plagiarism |-> plag,
         ai_generated |-> final > 60 * Unit,
         plagiarized |-> plag.score > 3000,
         risk_level |-> RiskLevel(final, plag.score)]

NoReport ==
    [report_id |-> "", filename |-> "", analyzed_at |-> 0, total_words |-> 0,
     total_sentences |-> 0, probability |-> 0, confidence |-> "none",
     metrics |-> NoMetrics, verdict |-> "", gptzero |-> None,
     plagiarism |-> NoPlagiarismResult, ai_generated |-> FALSE,
     plagiarized |-> FALSE, risk_level |-> ""]

\* lines 245-272 as a whole: the evidence of the first `checked` chunks, for
\* the outcome outcomes[c] of the query for chunk c
RECURSIVE SearchAll(_, _)
SearchAll(checked, outcomes) ==
    IF checked = 0 THEN <<>>
    ELSE SearchAll(checked - 1, outcomes) \o Evidence(checked, outcomes[checked])

\* lines 219-283 as a whole
PlagiarismResult(t, keys, outcomes) ==
    IF ~keys THEN NotConfiguredResult
    ELSE LET checked == Min(MaxChunksChecked, Len(SplitChunks(t.lens)))
         IN  ScoredResult(SearchAll(checked, outcomes), checked)

IdleApi ==
    /\ reports_cache = <<>>
    /\ clock = 0
    /\ final_ai_score = 0
    /\ response = [status |-> 0, path |-> "none", report |-> NoReport]

-----------------------------------------------------------------------------
(* calculate_perplexity_score, step by step *)

InitScoreWith(M) ==
    /\ pc = "entry"
    /\ text \in [sentences : 1..MaxScoreSentences, stats : M]
    /\ openai_key \in BOOLEAN
    /\ gemini_key \in BOOLEAN
    /\ metrics = NoMetrics
    /\ ai_score = 0
    /\ calls = <<>>
    /\ score_text = <<>>
    /\ ai_enhanced_score = None
    /\ result = [score |-> 0, confidence |-> "none", metrics |-> NoMetrics]
    /\ IdlePlag
    /\ search_keys = TRUE
    /\ IdleApi

\* lines 64-66: fewer than 3 sentences returns at once
ReturnTooShort ==
    /\ pc = "entry"
    /\ TooShort(text.sentences)
    /\ result' = TooShortResult
    /\ pc' = "done"
    /\ UNCHANGED <<text, openai_key, gemini_key, metrics, ai_score, calls,
                   score_text, ai_enhanced_score>>
    /\ UNCHANGED <<plagVars, apiVars>>

\* lines 69-104: the metrics and the heuristic points
Heuristic ==
    /\ pc = "entry"
    /\ ~TooShort(text.sentences)
    /\ metrics' = text.stats
    /\ ai_score' = HeuristicPoints(text.stats) * Unit
    /\ pc' = "openai"
    /\ UNCHANGED <<text, openai_key, gemini_key, calls, score_text,
                   ai_enhanced_score, result>>
    /\ UNCHANGED <<plagVars, apiVars>>

\* (mutant) a score from the primary provider does not end the function
AfterCallNoReturn(name, ok) ==
    IF name = "openai" THEN "gemini" ELSE IF ok THEN "blend" ELSE "none"

\* where control goes after a provider's try block: `return score` (lines 170,
\* 184) on success, else on to the next provider (line 176) or to line 189
AfterCall(name, ok) ==
    IF ok THEN "blend" ELSE IF name = "openai" THEN "gemini" ELSE "none"

\* one provider call and the parse of its answer (the body of a try block):
\* the new call log, score_text and whether a score was returned
CallProvider(name, o) ==
    LET filtered == FilterScoreChars(o.text)
        ok == ~o.raised /\ IsFloat(filtered)
    IN  /\ calls' = Append(calls, [provider |-> name, responded |-> ~o.raised,
                                   returned |-> ok])
        /\ score_text' = IF o.raised THEN score_text ELSE o.text
        /\ IF ok
           THEN ai_enhanced_score' = Some(FloatValue(filtered))
           ELSE ai_enhanced_score' = ai_enhanced_score
        /\ pc' = AfterCall(name, ok)

\* lines 155-173
TryOpenAI ==
    /\ pc = "openai"
    /\ IF openai_key
       THEN \E o \in ProviderOutcomes : CallProvider("openai", o)
       ELSE /\ pc' = "gemini"
            /\ UNCHANGED <<calls, score_text, ai_enhanced_score>>
    /\ UNCHANGED <<text, openai_key, gemini_key, metrics, ai_score, result>>
    /\ UNCHANGED <<plagVars, apiVars>>

\* lines 176-187
TryGemini ==
    /\ pc = "gemini"
    /\ IF gemini_key
       THEN \E o \in ProviderOutcomes : CallProvider("gemini", o)
       ELSE /\ pc' = "none"
            /\ UNCHANGED <<calls, score_text, ai_enhanced_score>>
    /\ UNCHANGED <<text, openai_key, gemini_key, metrics, ai_score, result>>
    /\ UNCHANGED <<plagVars, apiVars>>

\* lines 189-191: both failed
ReturnNone ==
    /\ pc = "none"
    /\ ai_enhanced_score' = None
    /\ pc' = "blend"
    /\ UNCHANGED <<text, openai_key, gemini_key, metrics, ai_score, calls,
                   score_text, result>>
    /\ UNCHANGED <<plagVars, apiVars>>

\* lines 108-124
BlendAndReturn ==
    /\ pc = "blend"
    /\ ai_score' = BlendedScore(ai_score, ai_enhanced_score)
    /\ result' = ReturnedResult(ai_score, ai_enhanced_score, metrics)
    /\ pc' = "done"
    /\ UNCHANGED <<text, openai_key, gemini_key, metrics, calls, score_text,
                   ai_enhanced_score>>
    /\ UNCHANGED <<plagVars, apiVars>>

NextScore ==
    \/ ReturnTooShort
    \/ Heuristic
    \/ TryOpenAI
    \/ TryGemini
    \/ ReturnNone
    \/ BlendAndReturn

InitScore == InitScoreWith(SampleMetrics)
SpecScore == InitScore /\ [][NextScore]_vars

\* the heuristic alone, over every band boundary
InitHeuristic == InitScoreWith(BoundaryMetrics) /\ openai_key /\ gemini_key
NextHeuristic == ReturnTooShort \/ Heuristic
SpecHeuristic == InitHeuristic /\ [][NextHeuristic]_vars

-----------------------------------------------------------------------------
(* check_plagiarism, step by step *)

\* longest text given to check_plagiarism, in sentences
MaxSentences == 7
\* longest text given to the splitter alone, in sentences
MaxSplitSentences == 5

IdleScore ==
    /\ pc = "idle"
    /\ text = [sentences |-> 1, stats |-> NoMetrics]
    /\ openai_key = FALSE
    /\ gemini_key = FALSE
    /\ metrics = NoMetrics
    /\ ai_score = 0
    /\ calls = <<>>
    /\ score_text = <<>>
    /\ ai_enhanced_score = None
    /\ result = [score |-> 0, confidence |-> "none", metrics |-> NoMetrics]

\* the callers pass a text of at least 50 words (lines 302, 368), so of at
\* least one sentence
InitPlagWith(Lengths, maxlen) ==
    /\ IdleScore
    /\ IdleApi
    /\ ppc = "entry"
    /\ search_keys \in BOOLEAN
    /\ sentences \in UNION {[1..n -> Lengths] : n \in 1..maxlen}
    /\ next_sentence = 1
    /\ current_chunk = EmptyChunk
    /\ chunks = <<>>
    /\ total_checked = 0
    /\ next_chunk = 1
    /\ queried = <<>>
    /\ last_search = NoSearch
    /\ matches = <<>>
    /\ plagiarism_result = NoPlagiarismResult

\* lines 221-222
ReturnNotConfigured ==
    /\ ppc = "entry"
    /\ ~search_keys
    /\ plagiarism_result' = NotConfiguredResult
    /\ ppc' = "done"
    /\ UNCHANGED <<search_keys, sentences, next_sentence, current_chunk, chunks, total_checked,
                   next_chunk, queried, last_search, matches>>
    /\ UNCHANGED <<scoreVars, apiVars>>

\* lines 224-228
StartSplit ==
    /\ ppc = "entry"
    /\ search_keys
    /\ chunks' = <<>>
    /\ current_chunk' = EmptyChunk
    /\ next_sentence' = 1
    /\ ppc' = "split"
    /\ UNCHANGED <<search_keys, sentences, total_checked, next_chunk, queried, last_search,
                   matches, plagiarism_result>>
    /\ UNCHANGED <<scoreVars, apiVars>>

\* lines 230-236, one sentence
SplitStep ==
    /\ ppc = "split"
    /\ next_sentence <= Len(sentences)
    /\ LET st == SplitOne([chunks |-> chunks, current |-> current_chunk],
                          next_sentence, sentences[next_sentence])
       IN  /\ chunks' = st.chunks
           /\ current_chunk' = st.current
    /\ next_sentence' = next_sentence + 1
    /\ UNCHANGED <<ppc, search_keys, sentences, total_checked, next_chunk, queried,
                   last_search, matches, plagiarism_result>>
    /\ UNCHANGED <<scoreVars, apiVars>>

\* lines 238-243
FlushLast ==
    /\ ppc = "split"
    /\ next_sentence > Len(sentences)
    /\ chunks' = Closed(chunks, current_chunk)
    /\ matches' = <<>>
    /\ total_checked' = Min(MaxChunksChecked, Len(chunks'))
    /\ next_chunk' = 1
    /\ ppc' = "search"
    /\ UNCHANGED <<search_keys, sentences, next_sentence, current_chunk, queried, last_search,
                   plagiarism_result>>
    /\ UNCHANGED <<scoreVars, apiVars>>

\* (mutant) a search that raises is tried again on the same chunk
SearchChunkRetry ==
    /\ ppc = "search"
    /\ next_chunk <= total_checked
    /\ \E o \in SearchOutcomes :
          /\ last_search' = o
          /\ matches' = matches \o Evidence(next_chunk, o)
          /\ next_chunk' = IF o.kind = "exception" THEN next_chunk ELSE next_chunk + 1
    /\ queried' = Append(queried, next_chunk)
    /\ UNCHANGED <<ppc, search_keys, sentences, next_sentence, current_chunk, chunks,
                   total_checked, plagiarism_result>>
    /\ UNCHANGED <<scoreVars, apiVars>>

\* lines 245-272, one chunk of chunks[:total_checked]
SearchChunk ==
    /\ ppc = "search"
    /\ next_chunk <= total_checked
    /\ \E o \in SearchOutcomes :
          /\ last_search' = o
          /\ matches' = matches \o Evidence(next_chunk, o)
    /\ queried' = Append(queried, next_chunk)
    /\ next_chunk' = next_chunk + 1
    /\ UNCHANGED <<ppc, search_keys, sentences, next_sentence, current_chunk, chunks,
                   total_checked, plagiarism_result>>
    /\ UNCHANGED <<scoreVars, apiVars>>

\* lines 274-283
ReturnScore ==
    /\ ppc = "search"
    /\ next_chunk > total_checked
    /\ plagiarism_result' = ScoredResult(matches, total_checked)
    /\ ppc' = "done"
    /\ UNCHANGED <<search_keys, sentences, next_sentence, current_chunk, chunks, total_checked,
                   next_chunk, queried, last_search, matches>>
    /\ UNCHANGED <<scoreVars, apiVars>>

NextPlag ==
    \/ ReturnNotConfigured
    \/ StartSplit
    \/ SplitStep
    \/ FlushLast
    \/ SearchChunk
    \/ ReturnScore

InitPlag == InitPlagWith({99, 200}, MaxSentences)
SpecPlag == InitPlag /\ [][NextPlag]_vars

\* the splitter alone, over more sentence lengths
InitSplit == InitPlagWith({50, 99, 100, 200}, MaxSplitSentences) /\ search_keys
NextSplit == StartSplit \/ SplitStep \/ FlushLast
SpecSplit == InitSplit /\ [][NextSplit]_vars

-----------------------------------------------------------------------------
(* The endpoints, one request at a time *)

\* number of requests served
MaxRequests == 2

\* A text is what the libraries report of it: its words, its sentences, its
\* metrics and the length of each sentence.
\*   A: 120 words in 7 sentences of 100 characters, heuristic points 80
\*   B: 60 words in 2 long sentences
\*   S: 10 words, below the 50 the endpoints ask for
ApiTexts ==
    {[name |-> "A", words |-> 120, sentences |-> 7,
      stats |-> MetricsOf(500, 6000, 1600, 36, 120),
      lens |-> <<100, 100, 100, 100, 100, 100, 100>>],
     [name |-> "B", words |-> 60, sentences |-> 2,
      stats |-> MetricsOf(2500, 3000, 1600, 50, 60),
      lens |-> <<200, 150>>],
     [name |-> "S", words |-> 10, sentences |-> 1,
      stats |-> MetricsOf(0, 9000, 300, 10, 10),
      lens |-> <<60>>]}

\* answers of get_ai_enhanced_detection
ApiExternal == {None, Some(60 * Unit)}

\* answers of check_gptzero (lines 194-216): None, or its
\* average_generated_prob * 100 in 1/Unit
ApiGptZero == {None} \cup {Some(g * Unit) : g \in {0, 40, 60, 70}}

\* answers of the search service, chunk by chunk: nothing found; one item for
\* chunk 1; two for chunk 1; three for chunk 1 and one for chunk 2
ApiSearches ==
    LET all(o) == [c \in 1..MaxChunksChecked |-> o]
        none == all([kind |-> "exception", items |-> 0])
        ok(n) == [kind |-> "ok", items |-> n]
    IN  {none,
         [none EXCEPT ![1] = ok(1)],
         [none EXCEPT ![1] = ok(2)],
         [none EXCEPT ![1] = ok(3), ![2] = ok(1)]}

InitApi ==
    /\ IdleScore
    /\ IdlePlag
    /\ search_keys \in BOOLEAN
    /\ IdleApi

\* lines 312-355 and 374-407: analyse, build the report, store it
AnalyzeAndStore(t, filename, path) ==
    \E ext \in ApiExternal, gptzero \in ApiGptZero, outcomes \in ApiSearches :
        LET analysis == PerplexityResult(t, ext)
            plag == PlagiarismResult(t, search_keys, outcomes)
            report == BuildReport(t, filename, clock, analysis, gptzero, plag)
        IN  /\ result' = analysis
            /\ plagiarism_result' = plag
            /\ final_ai_score' = FinalAiScore(analysis, gptzero)
            /\ reports_cache' = (ReportId(t) :> report) @@ reports_cache
            /\ response' = [status |-> 200, path |-> path, report |-> report]

Reject(status, path) ==
    /\ response' = [status |-> status, path |-> path, report |-> NoReport]
    /\ UNCHANGED <<result, plagiarism_result, final_ai_score, reports_cache>>

\* POST /api/analyze, lines 286-358
analyze_document ==
    /\ clock < MaxRequests
    /\ clock' = clock + 1
    /\ \E has_file \in BOOLEAN, filename \in {"essay.pdf", "essay.txt"},
          extracted \in BOOLEAN, t \in ApiTexts :
          IF ~has_file THEN Reject(400, "document:no file")
          ELSE IF filename # "essay.pdf" THEN Reject(400, "document:not pdf")
          ELSE IF ~extracted THEN Reject(500, "document:exception")
          ELSE IF t.words < 50 THEN Reject(400, "document:too short")
          ELSE IF ReportId(t) \in DOMAIN reports_cache
          THEN /\ response' = [status |-> 200, path |-> "document:cached",
                               report |-> reports_cache[ReportId(t)]]
               /\ UNCHANGED <<result, plagiarism_result, final_ai_score, reports_cache>>
          ELSE AnalyzeAndStore(t, filename, "document:built")
    /\ UNCHANGED <<pc, text, openai_key, gemini_key, metrics, ai_score, calls,
                   score_text, ai_enhanced_score>>
    /\ UNCHANGED <<ppc, search_keys, sentences, next_sentence, current_chunk, chunks,
                   total_checked, next_chunk, queried, last_search, matches>>

\* POST /api/analyze-text, lines 361-410
analyze_text ==
    /\ clock < MaxRequests
    /\ clock' = clock + 1
    /\ \E json_ok \in BOOLEAN, t \in ApiTexts :
          IF ~json_ok THEN Reject(500, "text:exception")
          ELSE IF t.words < 50 THEN Reject(400, "text:too short")
          ELSE AnalyzeAndStore(t, "", "text:built")
    /\ UNCHANGED <<pc, text, openai_key, gemini_key, metrics, ai_score, calls,
                   score_text, ai_enhanced_score>>
    /\ UNCHANGED <<ppc, search_keys, sentences, next_sentence, current_chunk, chunks,
                   total_checked, next_chunk, queried, last_search, matches>>

\* GET /api/report/<report_id>, lines 413-418
get_report ==
    /\ clock < MaxRequests
    /\ clock' = clock + 1
    /\ \E id \in {ReportId(t) : t \in ApiTexts} :
          IF id \in DOMAIN reports_cache
          THEN response' = [status |-> 200, path |-> "report:found",
                            report |-> reports_cache[id]]
          ELSE response' = [status |-> 404, path |-> "report:not found",
                            report |-> NoReport]
    /\ UNCHANGED <<reports_cache, final_ai_score>>
    /\ UNCHANGED <<scoreVars, plagVars>>

NextApi ==
    \/ analyze_document
    \/ analyze_text
    \/ get_report

SpecApi == InitApi /\ [][NextApi]_vars

-----------------------------------------------------------------------------
(* Claims about calculate_perplexity_score and get_ai_enhanced_detection *)

Finished == pc = "done" /\ ~(text.sentences < 3)

\* the label the thresholds 60 and 40 give a score in 1/Unit
LabelOf(x) ==
    IF x > 60 * Unit THEN "high" ELSE IF x > 40 * Unit THEN "medium" ELSE "low"

\* h*0.6 + e*0.4 in 1/Unit, for h in points and e in 1/Unit
Mix(h, e) == (6 * h * Unit + 4 * e) \div 10

\* C1 as stated: for a text of at least 3 sentences the returned confidence
\* label is the label of the pre-blend heuristic score, whatever the external
\* opinion is.
C1_LabelFromHeuristicOnly ==
    Finished => result.confidence = LabelOf(HeuristicPoints(result.metrics) * Unit)

\* C1 amended: for a text of at least 3 sentences the returned confidence
\* label is the label of the blended score (h*0.6 + e*0.4 when an external
\* score e is present, h when it is absent): > 60 high, > 40 medium, else low.
C1_LabelFromBlendedScore ==
    Finished =>
        LET h == HeuristicPoints(result.metrics)
            b == IF ai_enhanced_score.some THEN Mix(h, ai_enhanced_score.val)
                 ELSE h * Unit
        IN  result.confidence = LabelOf(b)

\* an external opinion has changed the label: heuristic 80 ("high") with an
\* external score of 0 is returned as "medium"
C1_Witness ==
    /\ Finished
    /\ HeuristicPoints(result.metrics) = 80
    /\ ai_enhanced_score = Some(0)
    /\ result.confidence = "medium"

Providers(log) == [i \in 1..Len(log) |-> log[i].provider]

\* C2: the providers are tried in the order OpenAI, Gemini, each at most once;
\* Gemini only when OpenAI is unconfigured or failed; the result is the score
\* of the first provider that succeeds and None exactly when every provider is
\* unconfigured or failed, and then the analysis goes on to return the
\* heuristic score alone.
C2_OrderedFallback ==
    LET called(p) == \E i \in 1..Len(calls) : calls[i].provider = p
        succeeded(p) == \E i \in 1..Len(calls) :
                            calls[i].provider = p /\ calls[i].returned
        past == pc \in {"blend", "done"} /\ ~(text.sentences < 3)
    IN  /\ Providers(calls) \in {<<>>, <<"openai">>, <<"gemini">>, <<"openai", "gemini">>}
        /\ called("openai") => openai_key
        /\ called("gemini") => gemini_key /\ ~succeeded("openai")
        /\ \A i \in 1..Len(calls) : calls[i].returned => i = Len(calls)
        /\ past =>
              /\ openai_key => called("openai")
              /\ (gemini_key /\ ~succeeded("openai")) => called("gemini")
              /\ ai_enhanced_score.some <=> (succeeded("openai") \/ succeeded("gemini"))
              /\ ai_enhanced_score.some =>
                    ai_enhanced_score.val = FloatValue(FilterScoreChars(score_text))
              /\ ~ai_enhanced_score.some <=>
                    /\ ~openai_key \/ (called("openai") /\ ~succeeded("openai"))
                    /\ ~gemini_key \/ (called("gemini") /\ ~succeeded("gemini"))
        /\ (Finished /\ ~ai_enhanced_score.some) =>
              /\ result.score = HeuristicPoints(result.metrics) * Unit
              /\ result.confidence \in {"low", "medium", "high"}
        /\ pc # "done" => ENABLED NextScore

\* the primary failed, the secondary answered "65", and 65 is the result
C2_Witness ==
    /\ pc = "done"
    /\ Providers(calls) = <<"openai", "gemini">>
    /\ ~calls[1].returned /\ calls[2].returned
    /\ score_text = <<"6", "5">>
    /\ ai_enhanced_score = Some(65 * Unit)

\* C3 as stated: a response whose digits and points form no number makes the
\* provider fail and control fall through to the next one, any other response
\* is returned as the score, and the returned score lies in [0,100].
C3_ScoreInRangeOrFailure ==
    /\ \A i \in 1..Len(calls) :
          (i = Len(calls) /\ calls[i].responded) =>
              /\ calls[i].returned <=> IsFloat(FilterScoreChars(score_text))
              /\ ~calls[i].returned =>
                    /\ ~ai_enhanced_score.some
                    /\ (calls[i].provider = "openai" /\ gemini_key) => pc = "gemini"
    /\ ai_enhanced_score.some =>
          (0 <= ai_enhanced_score.val /\ ai_enhanced_score.val <= 100 * Unit)

\* C4 as stated: the returned score is h*0.6 + e*0.4 when an external score e
\* is present and h when it is absent, and it lies in [0,100].
C4_BlendFormula ==
    Finished =>
        LET h == HeuristicPoints(result.metrics)
        IN  /\ result.score = IF ai_enhanced_score.some
                              THEN Mix(h, ai_enhanced_score.val)
                              ELSE h * Unit
            /\ 0 <= result.score /\ result.score <= 100 * Unit

\* C6: a text of fewer than 3 sentences returns score 50 and confidence "low"
\* under every provider configuration, with no metrics computed and no
\* provider called.
C6_TooShortIsNeutral ==
    text.sentences < 3 =>
        /\ pc \in {"entry", "done"}
        /\ calls = <<>>
        /\ ~metrics.computed
        /\ pc = "done" =>
              /\ result.score = 50 * Unit
              /\ result.confidence = "low"
              /\ ~result.metrics.computed

\* a two-sentence text has returned although both providers are configured
C6_Witness ==
    /\ pc = "done"
    /\ text.sentences = 2
    /\ openai_key /\ gemini_key

-----------------------------------------------------------------------------
(* Claims about the heuristic *)

Scored == pc = "openai"

\* C5 as stated: the points are the sum of the four factors, with reading
\* ease in [45,85) and grade level in [6,14) as the looser bands (85 and 14
\* give 0).
C5_BandsAsStated ==
    Scored =>
        LET m == metrics
            f1 == IF m.variance < 1000 THEN 25
                  ELSE IF m.variance < 2000 THEN 15 ELSE 0
            f2 == IF m.reading_ease >= 5500 /\ m.reading_ease <= 7500 THEN 25
                  ELSE IF m.reading_ease >= 4500 /\ m.reading_ease < 8500 THEN 15 ELSE 0
            f3 == IF m.grade >= 800 /\ m.grade <= 1200 THEN 20
                  ELSE IF m.grade >= 600 /\ m.grade < 1400 THEN 10 ELSE 0
            f4 == IF 100 * m.unique_words < 40 * m.total_words THEN 30
                  ELSE IF 100 * m.unique_words < 60 * m.total_words THEN 15 ELSE 0
        IN  /\ ai_score = (f1 + f2 + f3 + f4) * Unit
            /\ 0 <= ai_score /\ ai_score <= 100 * Unit

\* C5 amended: the same sum, with the looser bands closed at their upper end:
\* reading ease in [45,85] gives +15 (85 gives 15), grade level in [6,14]
\* gives +10 (14 gives 10); the sum is within [0,100].
C5_BandsClosed ==
    Scored =>
        LET m == metrics
            f1 == IF m.variance < 1000 THEN 25
                  ELSE IF m.variance < 2000 THEN 15 ELSE 0
            f2 == IF m.reading_ease >= 5500 /\ m.reading_ease <= 7500 THEN 25
                  ELSE IF m.reading_ease >= 4500 /\ m.reading_ease <= 8500 THEN 15 ELSE 0
            f3 == IF m.grade >= 800 /\ m.grade <= 1200 THEN 20
                  ELSE IF m.grade >= 600 /\ m.grade <= 1400 THEN 10 ELSE 0
            f4 == IF 100 * m.unique_words < 40 * m.total_words THEN 30
                  ELSE IF 100 * m.unique_words < 60 * m.total_words THEN 15 ELSE 0
        IN  /\ ai_score = (f1 + f2 + f3 + f4) * Unit
            /\ 0 <= ai_score /\ ai_score <= 100 * Unit

\* variance exactly 10, reading ease exactly 85, grade exactly 14 and a unique
\* ratio of exactly 0.4 have been scored 15 + 15 + 10 + 15
C5_Witness ==
    /\ Scored
    /\ metrics.variance = 1000 /\ metrics.reading_ease = 8500
    /\ metrics.grade = 1400 /\ 10 * metrics.unique_words = 4 * metrics.total_words
    /\ ai_score = 55 * Unit

-----------------------------------------------------------------------------
(* Claims about check_plagiarism *)

PlagDone == ppc = "done" /\ search_keys

\* the number of evidence entries chunk c produced
EntriesOf(found, c) == Cardinality({j \in 1..Len(found) : found[j].chunk = c})

Abs(x) == IF x < 0 THEN -x ELSE x

\* C8 as stated: chunks_checked = min(5, number of chunks) <= 5 and score =
\* min(100, (entries / chunks_checked) * 100), within [0,100]; 7 chunks with
\* two entries each from chunks 1 and 2 and none from the rest score 80.
\* (score is in hundredths: score / 100 = entries * 100 / checked.)
C8_ScoreAsStated ==
    PlagDone =>
        LET r == plagiarism_result
            n == Len(r.sources)
            c == r.chunks_checked
        IN  /\ c = Min(5, Len(chunks)) /\ c <= 5
            /\ IF n >= c THEN r.score = 10000 ELSE r.score * c = n * 10000
            /\ 0 <= r.score /\ r.score <= 10000

\* C8 amended: the same, with the score rounded to two decimals: it is the
\* multiple of 0.01 nearest to min(100, (entries / chunks_checked) * 100).
C8_ScoreRounded ==
    PlagDone =>
        LET r == plagiarism_result
            n == Len(r.sources)
            c == r.chunks_checked
        IN  /\ r.kind = "ok"
            /\ c = Min(5, Len(chunks)) /\ c <= 5
            /\ IF n >= c THEN r.score = 10000
               ELSE 2 * Abs(r.score * c - n * 10000) <= c
            /\ 0 <= r.score /\ r.score <= 10000
            /\ (/\ Len(chunks) = 7
                /\ EntriesOf(r.sources, 1) = 2 /\ EntriesOf(r.sources, 2) = 2
                /\ n = 4) => r.score = 8000

\* 7 chunks, two entries each from chunks 1 and 2, none from the rest: 80
C8_Witness ==
    /\ PlagDone
    /\ Len(chunks) = 7
    /\ plagiarism_result.chunks_checked = 5
    /\ EntriesOf(plagiarism_result.sources, 1) = 2
    /\ EntriesOf(plagiarism_result.sources, 2) = 2
    /\ Len(plagiarism_result.sources) = 4
    /\ plagiarism_result.score = 8000

\* C10 as stated, in its conclusion: a sentence joins a non-empty buffer only
\* when the result stays below 200 characters, so every emitted chunk that
\* holds more than one sentence is shorter than 200 characters.
C10_JoinedChunksBelowLimit ==
    \A c \in 1..Len(chunks) : Len(chunks[c].ids) > 1 => chunks[c].len < 200

-----------------------------------------------------------------------------
(* Claims about the endpoints *)

Built == response.path \in {"document:built", "text:built"}

\* C7: in both endpoints the report has ai_generated exactly when
\* finalAiScore > 60, plagiarized exactly when plagiarismScore > 30,
\* risk_level "high" when finalAiScore > 70 or plagiarismScore > 50, else
\* "medium" when finalAiScore > 50 or plagiarismScore > 30, else "low", and
\* verdict "Likely AI-generated" above 60, "Likely human-written" below 40,
\* else "Uncertain".
C7_RiskClassification ==
    Built =>
        LET r == response.report
            a == final_ai_score
            p == plagiarism_result.score
        IN  /\ response.status = 200
            /\ r.plagiarism = plagiarism_result
            /\ r.ai_generated <=> a > 60 * Unit
            /\ r.plagiarized <=> p > 3000
            /\ r.risk_level =
                  (IF a > 70 * Unit \/ p > 5000 THEN "high"
                   ELSE IF a > 50 * Unit \/ p > 3000 THEN "medium"
                   ELSE "low")
            /\ r.verdict =
                  (IF a > 60 * Unit THEN "Likely AI-generated"
                   ELSE IF a < 40 * Unit THEN "Likely human-written"
                   ELSE "Uncertain")

\* a final AI score of 75 with a plagiarism score below 30 (here 20) has been
\* reported as high risk, AI-generated, not plagiarized
C7_Witness ==
    /\ Built
    /\ final_ai_score = 75 * Unit
    /\ plagiarism_result.score = 2000
    /\ response.report.risk_level = "high"
    /\ response.report.ai_generated
    /\ ~response.report.plagiarized

\* C9 as stated: a report stored in the cache stays there unchanged, whatever
\* request comes next.
C9_StoredReportNeverChanges ==
    [][\A id \in DOMAIN reports_cache :
          /\ id \in DOMAIN reports_cache'
          /\ reports_cache'[id] = reports_cache[id]]_vars

-----------------------------------------------------------------------------
(* Claims about the chunk splitter *)

\* the sentences of a chunk list, chunk after chunk
RECURSIVE Flatten(_)
Flatten(list) ==
    IF list = <<>> THEN <<>>
    ELSE Flatten(SubSeq(list, 1, Len(list) - 1)) \o list[Len(list)].ids

\* the characters of sentences ids[1..n] joined by single spaces
RECURSIVE JoinedLength(_, _)
JoinedLength(ids, n) ==
    IF n = 0 THEN 0
    ELSE IF n = 1 THEN sentences[ids[1]]
    ELSE JoinedLength(ids, n - 1) + 1 + sentences[ids[n]]

SplitOver == ppc = "search"

\* C11: the chunks partition the sentence sequence in order: the chunks read
\* one after the other are the sentences 1..n, each once and whole (a chunk
\* is exactly its sentences joined by single spaces); a sentence of 200
\* characters or more is a chunk of its own; no chunk is empty; the last
\* buffer is the last chunk.
C11_ChunksPartitionSentences ==
    /\ ppc = "split" =>
          Flatten(chunks) \o current_chunk.ids = [j \in 1..(next_sentence - 1) |-> j]
    /\ \A c \in 1..Len(chunks) :
          /\ chunks[c].ids # <<>>
          /\ chunks[c].len > 0
          /\ chunks[c].len = JoinedLength(chunks[c].ids, Len(chunks[c].ids))
    /\ SplitOver =>
          /\ Flatten(chunks) = [j \in 1..Len(sentences) |-> j]
          /\ \A j \in 1..Len(sentences) :
                sentences[j] >= 200 => \E c \in 1..Len(chunks) : chunks[c].ids = <<j>>
          /\ current_chunk.ids # <<>>
          /\ chunks[Len(chunks)].ids = current_chunk.ids

\* a 200-character sentence between shorter ones: three chunks, the long
\* sentence alone in the second, the last two sentences together in the third
C11_Witness ==
    /\ SplitOver
    /\ sentences = <<99, 200, 50, 50>>
    /\ Len(chunks) = 3
    /\ chunks[1].ids = <<1>>
    /\ chunks[2] = [ids |-> <<2>>, len |-> 200]
    /\ chunks[3] = [ids |-> <<3, 4>>, len |-> 101]

-----------------------------------------------------------------------------
(* Claims about the search loop *)

FirstN(n) == [j \in 1..n |-> j]

\* C12: the queries issued so far are chunks 1, 2, 3, ... in that order, each
\* once; there are never more than min(5, number of chunks) of them, and when
\* the run returns they are exactly the first min(5, number of chunks)
\* chunks; the evidence entries come from queried chunks and appear in the
\* order of the chunks that produced them.
C12_QueriesInOrderOnce ==
    /\ queried = FirstN(Len(queried))
    /\ Len(queried) <= 5
    /\ ppc \in {"search", "done"} => Len(queried) <= Min(5, Len(chunks))
    /\ ppc = "search" => Len(queried) = next_chunk - 1
    /\ PlagDone => queried = FirstN(Min(5, Len(chunks)))
    /\ \A a \in 1..Len(matches) :
          /\ matches[a].chunk \in 1..Len(queried)
          /\ \A b \in a..Len(matches) : matches[a].chunk <= matches[b].chunk

\* seven chunks, the first five queried in order and no other, with
\* successes (chunks 1 and 4) and a failure (chunk 5) among them
C12_Witness ==
    /\ PlagDone
    /\ Len(chunks) = 7
    /\ queried = <<1, 2, 3, 4, 5>>
    /\ EntriesOf(matches, 1) = 2
    /\ EntriesOf(matches, 2) = 0
    /\ EntriesOf(matches, 4) = 1
    /\ last_search.kind = "exception"

\* the chunk of the latest query
LastQueried == queried[Len(queried)]

SearchFailed == last_search.kind \in {"exception", "status"}

\* C13: a chunk whose search failed has no evidence entry and the run goes
\* on: the next chunk among the first five can be searched, or else the score
\* is returned, and the result is a normal score whose chunks_checked is
\* min(5, number of chunks); a chunk whose search succeeded has
\* min(2, returned items) entries, so at most 2.
C13_FailedSearchAddsNothing ==
    /\ queried # <<>> =>
          /\ SearchFailed => EntriesOf(matches, LastQueried) = 0
          /\ last_search.kind = "ok" =>
                /\ EntriesOf(matches, LastQueried) = Min(2, last_search.items)
                /\ EntriesOf(matches, LastQueried) <= 2
          /\ ppc \in {"search", "done"}
          /\ (ppc = "search" /\ next_chunk <= total_checked) => ENABLED SearchChunk
          /\ (ppc = "search" /\ next_chunk > total_checked) => ENABLED ReturnScore
    /\ \A c \in 1..Len(chunks) : EntriesOf(matches, c) <= 2
    /\ PlagDone =>
          /\ plagiarism_result.kind = "ok"
          /\ plagiarism_result.chunks_checked = Min(5, Len(chunks))
          /\ Len(queried) = plagiarism_result.chunks_checked
          /\ plagiarism_result.sources = matches

\* the search of chunk 2 of five has just failed after chunk 1 gave two
\* entries: nothing was added and chunk 3 is next
C13_Witness ==
    /\ ppc = "search"
    /\ total_checked = 5
    /\ queried = <<1, 2>>
    /\ SearchFailed
    /\ Len(matches) = 2
    /\ EntriesOf(matches, 1) = 2
    /\ next_chunk = 3

\* three items returned, two kept, and the run ended normally after a failure
\* earlier in the run left chunk 1 without entries
C13_WitnessTruncated ==
    /\ PlagDone
    /\ last_search = [kind |-> "ok", items |-> 3]
    /\ EntriesOf(matches, LastQueried) = 2
    /\ EntriesOf(matches, 1) = 0
    /\ plagiarism_result.chunks_checked = 5

====
